---- MODULE Spec2Model ----
(***************************************************************************)
(* Verification model of the dashboard client of crypto_trading_system:    *)
(*   - WebSocketService (services/websocket.ts): connection life cycle,    *)
(*     capped exponential-backoff reconnection, handler registry, fan-out; *)
(*   - MonitoringPanel.handleMessage (components/MonitoringPanel.tsx):     *)
(*     the view-state reducer (upsert of signals by id, metrics snapshot). *)
(* The browser is the environment: it owns each socket's readyState,       *)
(* dispatches open / message / close events and fires setTimeout callbacks.*)
(***************************************************************************)
EXTENDS Bags, FiniteSets, Integers, Sequences, TLC

\* ------------------------------------------------------------------ bounds
MaxSockets == 2      \* socket objects that exist (not yet collected) at once
MaxTimers == 2       \* setTimeout callbacks pending at once
MaxFrames == 2       \* inbound frames observed in one behaviour
MaxHandlers == 2     \* length of the handler registry
MaxMsgs == 3         \* messages applied to the panel reducer in one behaviour
MaxRegistry == 3     \* length of the registry when handlers unsubscribe
MaxMonMsgs == 3      \* frames handled by RealTimeMonitor
MaxHookSockets == 7  \* sockets one useWebSocket instance creates
MaxAttachSockets == 3 \* sockets of the hook while RealTimeMonitor is observed

\* ------------------------------------------------------- program constants
maxReconnectAttempts == 5
baseDelay == 1000
reconnectDelay == 5000

\* the JavaScript value null (a record, so that it compares with objects)
Null == [null |-> TRUE]

Slots == 1..MaxSockets

\* WebSocket.readyState of a slot; "none" is a slot holding no socket object
ReadyStates == {"none", "connecting", "open", "closing", "closed"}

\* The callbacks that get registered: the panel's handleMessage and some
\* other observer that never throws.
HandlerIds == {"handleMessage", "observer"}

\* Callbacks that call removeMessageHandler while they handle a message: a
\* one-shot listener that unsubscribes itself, and one that unsubscribes the
\* observer.
RemoverIds == {"once", "dropObserver"}

\* the handler that a remover passes to removeMessageHandler
Target(h) == IF h = "once" THEN "once" ELSE "observer"

\* Raw text frames the backend (or anything else on the wire) may send.
RawFrames == {"{\"type\":\"metrics_update\"}", "null", "{\"type\":"}

VARIABLES
    ws,                 \* this.ws: 0 for null, else the slot of the socket
    sock,               \* readyState of every socket object the service made
    reconnectAttempts,  \* this.reconnectAttempts
    messageHandlers,    \* this.messageHandlers
    timers,             \* pending setTimeout(() => this.connect(), d): bag of d
    delivered,          \* log of handler invocations <<frame number, handler>>
    frames,             \* number of frames that have arrived so far
    badSeen,            \* slots whose socket has received an unparsable frame
    lastOp,             \* the operation or event that produced this state
    clientMode,         \* "none" | "once" | "other": the client's calls so far
    attempts,           \* connect() calls made by timers since the last open
    cleanDisconnect,    \* disconnect() was called on a connected service and
                        \* the client has not called connect() since
    ctorThrows,         \* does `new WebSocket(this.url)` throw for this url?
    raised,             \* did the last call or callback of the service raise?
    signals,            \* MonitoringPanel state: TradingSignal[]
    metrics,            \* MonitoringPanel state: SystemMetrics | null
    seen,               \* the messages handleMessage ran its switch on so far
    activeSignals,      \* RealTimeMonitor state: Signal[]
    marketData,         \* RealTimeMonitor state: Record<string, MarketData>
    stats,              \* RealTimeMonitor state: MonitoringStats
    monLast,            \* the last document RealTimeMonitor's onmessage decoded
    monCount,           \* number of frames RealTimeMonitor has handled
    hookMounted,        \* useWebSocket: "no" | "yes" | "gone" (cleanup has run)
    hookSock,           \* useWebSocket: readyState of each socket it created
    hookWs,             \* useWebSocket: the state ws, 0 for null
    hookRef,            \* useWebSocket: reconnectTimeout.current, 0 if unset
    hookTimers,         \* useWebSocket: ids of the pending setTimeout callbacks
    hookTimerCount,     \* useWebSocket: number of setTimeout calls so far
    hookLast,           \* useWebSocket: the step that produced this state
    panelMounted,       \* MonitoringPanel: "no" | "yes" | "gone" (cleanup has run)
    calls,              \* the calls MonitoringPanel's effect made on the service
    monAttached,        \* hook sockets whose onmessage is RealTimeMonitor's handler
    monEffectWs,        \* the ws RealTimeMonitor's effect last ran with, 0 for null
    monDropped          \* frames that arrived on a socket with no onmessage

svcVars == <<ws, sock, reconnectAttempts, messageHandlers, timers, delivered,
             frames, badSeen, lastOp, clientMode, attempts, cleanDisconnect,
             ctorThrows, raised>>
panelVars == <<signals, metrics, seen>>
monitorVars == <<activeSignals, marketData, stats, monLast, monCount>>
hookVars == <<hookMounted, hookSock, hookWs, hookRef, hookTimers,
              hookTimerCount, hookLast>>
lifeVars == <<panelMounted, calls>>
attachVars == <<monAttached, monEffectWs, monDropped>>
vars == <<ws, sock, reconnectAttempts, messageHandlers, timers, delivered,
          frames, badSeen, lastOp, clientMode, attempts, cleanDisconnect,
          ctorThrows, raised, signals, metrics, seen,
          activeSignals, marketData, stats, monLast, monCount,
          hookMounted, hookSock, hookWs, hookRef, hookTimers,
          hookTimerCount, hookLast, panelMounted, calls,
          monAttached, monEffectWs, monDropped>>

\* --------------------------------------------------------------- helpers
Live(sk) == {s \in Slots : sk[s] \in {"connecting", "open"}}

\* A closed socket that this.ws no longer references can never act again:
\* its slot is released.
Collect(sk, w) ==
    [s \in Slots |-> IF sk[s] = "closed" /\ s # w THEN "none" ELSE sk[s]]

FreeSlots(sk) == {s \in Slots : sk[s] = "none"}

MinOf(S) == CHOOSE m \in S : \A n \in S : m <= n

Pow2(n) == 2 ^ n

\* the JavaScript value undefined
Undefined == [undefined |-> TRUE]

\* data.field: undefined when the document has no such property
Get(data, field) == IF field \in DOMAIN data THEN data[field] ELSE Undefined

\* JSON.parse on the sample frames: a JSON document yields its value, anything
\* else throws SyntaxError.
JSONParse(raw) ==
    CASE raw = "{\"type\":\"metrics_update\"}" ->
             [ok |-> TRUE, value |-> [type |-> "metrics_update"]]
      [] raw = "null" -> [ok |-> TRUE, value |-> Null]
      [] raw = "{\"type\":" -> [ok |-> FALSE, value |-> Null]

\* Does handler h throw when invoked with message m?  handleMessage reads
\* message.type, a TypeError when the decoded document is null.
Throws(h, m) == h = "handleMessage" /\ m = Null

\* ---------------------------------------------------- WebSocketService code
\* handleReconnect() with the cap test off by one (<= for <)
handleReconnect_capOffByOne(ra, tm) ==
    IF ra <= maxReconnectAttempts
    THEN [ra |-> ra + 1,
          tm |-> tm (+) SetToBag({baseDelay * Pow2(ra + 1)})]
    ELSE [ra |-> ra, tm |-> tm]

\* handleReconnect() taking the delay from the counter before the increment
handleReconnect_delayBeforeIncrement(ra, tm) ==
    IF ra < maxReconnectAttempts
    THEN [ra |-> ra + 1,
          tm |-> tm (+) SetToBag({baseDelay * Pow2(ra)})]
    ELSE [ra |-> ra, tm |-> tm]

\* handleReconnect(): the new counter and the new set of pending timers
\* handleReconnect() that arms two timers for one attempt
handleReconnect_twoTimers(ra, tm) ==
    IF ra < maxReconnectAttempts
    THEN [ra |-> ra + 1,
          tm |-> tm (+) SetToBag({baseDelay * Pow2(ra + 1)})
                    (+) SetToBag({baseDelay * Pow2(ra + 1)})]
    ELSE [ra |-> ra, tm |-> tm]

\* handleReconnect() that counts the attempt but arms no timer
handleReconnect_noTimer(ra, tm) ==
    IF ra < maxReconnectAttempts
    THEN [ra |-> ra + 1, tm |-> tm]
    ELSE [ra |-> ra, tm |-> tm]

handleReconnect(ra, tm) ==
    IF ra < maxReconnectAttempts
    THEN [ra |-> ra + 1,
          tm |-> tm (+) SetToBag({baseDelay * Pow2(ra + 1)})]
    ELSE [ra |-> ra, tm |-> tm]

\* Would handleReconnect() fit in the timer bound?
RoomForTimer(ra, tm) ==
    ra >= maxReconnectAttempts \/ BagCardinality(tm) < MaxTimers

\* ws.onopen that forgets to reset the counter
onopen_noReset(ra) == ra

\* ws.onopen
onopen(ra) == 0

\* removal of the first registration of handler only (splice at indexOf)
RECURSIVE filterOut_firstOnly(_, _)
filterOut_firstOnly(hs, h) ==
    IF hs = <<>> THEN <<>>
    ELSE IF Head(hs) = h THEN Tail(hs)
         ELSE <<Head(hs)>> \o filterOut_firstOnly(Tail(hs), h)

\* messageHandlers.filter(h => h !== handler)
RECURSIVE filterOut(_, _)
filterOut(hs, h) ==
    IF hs = <<>> THEN <<>>
    ELSE IF Head(hs) = h THEN filterOut(Tail(hs), h)
         ELSE <<Head(hs)>> \o filterOut(Tail(hs), h)

\* this.messageHandlers.forEach(handler => handler(message)) from index i on.
\* hs is the array forEach was called on; st.log is the invocation log and
\* st.reg is this.messageHandlers, which a handler replaces by a new array
\* when it calls removeMessageHandler.  An exception thrown by a handler
\* leaves forEach; st.threw records it.
RECURSIVE forEach(_, _, _, _, _)
forEach(hs, i, m, f, st) ==
    IF i > Len(hs) THEN st
    ELSE LET h == hs[i]
             st2 == [log |-> Append(st.log, <<f, h>>),
                     reg |-> IF h \in RemoverIds
                             THEN filterOut(st.reg, Target(h))
                             ELSE st.reg,
                     threw |-> FALSE]
         IN  IF Throws(h, m) THEN [st2 EXCEPT !.threw = TRUE]
             ELSE forEach(hs, i + 1, m, f, st2)

\* ws.onmessage that hands the failed parse's result to the handlers
onmessage_noDrop(hs, raw, f, log) ==
    LET st == forEach(hs, 1, JSONParse(raw).value, f,
                      [log |-> log, reg |-> hs, threw |-> FALSE])
    IN  [log |-> st.log, reg |-> st.reg, escaped |-> FALSE]

\* ws.onmessage without its try / catch: what JSON.parse or a handler throws
\* leaves the callback
onmessage_noCatch(hs, raw, f, log) ==
    LET r == JSONParse(raw)
    IN  IF r.ok
        THEN LET st == forEach(hs, 1, r.value, f,
                               [log |-> log, reg |-> hs, threw |-> FALSE])
             IN  [log |-> st.log, reg |-> st.reg, escaped |-> st.threw]
        ELSE [log |-> log, reg |-> hs, escaped |-> TRUE]

\* ws.onmessage for frame number f carrying raw: the log and the registry
\* after the callback, and whether an exception left the callback (the catch
\* clause takes what JSON.parse or a handler throws and only logs it)
onmessage(hs, raw, f, log) ==
    LET r == JSONParse(raw)
    IN  IF r.ok
        THEN LET st == forEach(hs, 1, r.value, f,
                               [log |-> log, reg |-> hs, threw |-> FALSE])
             IN  [log |-> st.log, reg |-> st.reg, escaped |-> FALSE]
        ELSE [log |-> log, reg |-> hs, escaped |-> FALSE]

\* ws.close(): CONNECTING and OPEN go to CLOSING, otherwise nothing happens
closeSocket(st) == IF st \in {"connecting", "open"} THEN "closing" ELSE st

\* connect() that gives up once the retry counter has reached the cap
connect_givesUp(tm) ==
    IF reconnectAttempts >= maxReconnectAttempts
    THEN /\ timers' = tm
         /\ raised' = FALSE
         /\ UNCHANGED <<ws, sock, badSeen, reconnectAttempts>>
    ELSE IF ctorThrows
    THEN LET r == handleReconnect(reconnectAttempts, tm)
         IN  /\ RoomForTimer(reconnectAttempts, tm)
             /\ reconnectAttempts' = r.ra
             /\ timers' = r.tm
             /\ raised' = FALSE
             /\ UNCHANGED <<ws, sock, badSeen>>
    ELSE LET sk == Collect(sock, 0)
         IN  /\ FreeSlots(sk) # {}
             /\ LET s == MinOf(FreeSlots(sk))
                IN  /\ ws' = s
                    /\ sock' = [sk EXCEPT ![s] = "connecting"]
                    /\ badSeen' = (badSeen \cap {t \in Slots : sk[t] # "none"})
             /\ timers' = tm
             /\ raised' = FALSE
             /\ UNCHANGED reconnectAttempts

\* connect() without the try / catch: the exception of `new WebSocket`
\* reaches the caller and no reconnection is scheduled
connect_noCatch(tm) ==
    IF ctorThrows
    THEN /\ raised' = TRUE
         /\ timers' = tm
         /\ UNCHANGED <<ws, sock, badSeen, reconnectAttempts>>
    ELSE LET sk == Collect(sock, 0)
         IN  /\ FreeSlots(sk) # {}
             /\ LET s == MinOf(FreeSlots(sk))
                IN  /\ ws' = s
                    /\ sock' = [sk EXCEPT ![s] = "connecting"]
                    /\ badSeen' = (badSeen \cap {t \in Slots : sk[t] # "none"})
             /\ timers' = tm
             /\ raised' = FALSE
             /\ UNCHANGED reconnectAttempts

\* connect(): body shared by the client's call and the timer callback.
\* tm is the bag of timers still pending when the body runs.
\* The catch clause absorbs the exception of `new WebSocket` and calls
\* handleReconnect(); nothing reaches the caller.
connect(tm) ==
    IF ctorThrows
    THEN LET r == handleReconnect(reconnectAttempts, tm)
         IN  /\ RoomForTimer(reconnectAttempts, tm)
             /\ reconnectAttempts' = r.ra
             /\ timers' = r.tm
             /\ raised' = FALSE
             /\ UNCHANGED <<ws, sock, badSeen>>
    ELSE LET sk == Collect(sock, 0)
         IN  /\ FreeSlots(sk) # {}
             /\ LET s == MinOf(FreeSlots(sk))
                IN  /\ ws' = s
                    /\ sock' = [sk EXCEPT ![s] = "connecting"]
                    /\ badSeen' = (badSeen \cap {t \in Slots : sk[t] # "none"})
             /\ timers' = tm
             /\ raised' = FALSE
             /\ UNCHANGED reconnectAttempts

\* ------------------------------------------------- MonitoringPanel code
\* Payloads are JavaScript objects: functions from the keys present to values.
SignalPayloads ==
    [id : {1, 2}, current_price : {46000, 47000}]
    \cup [id : {1, 2}, current_price : {46000, 47000}, leverage : {10}]

MetricsPayloads ==
    [overall_accuracy : {87, 90}, total_signals : {100}]
    \cup [overall_accuracy : {90}]

Messages ==
    [type : {"signal_update"}, data : SignalPayloads]
    \cup [type : {"metrics_update"}, data : MetricsPayloads]
    \cup [type : {"market_data"}, data : {[BTC |-> 1]}]
    \cup {[type |-> "metrics_update"]}

\* { ...old, ...new }
Spread(old, new) ==
    [k \in DOMAIN old \cup DOMAIN new |->
        IF k \in DOMAIN new THEN new[k] ELSE old[k]]

\* updated.findIndex(s => s.id === id): position of the first match counted
\* from 1, and 0 where the code gets -1
findIndex(arr, id) ==
    IF \E i \in 1..Len(arr) : arr[i].id = id
    THEN MinOf({i \in 1..Len(arr) : arr[i].id = id})
    ELSE 0

\* the setSignals updater that moves an updated entry to the end
setSignals_moveToEnd(prev, signalData) ==
    Append(SelectSeq(prev, LAMBDA x : x.id # signalData.id), signalData)

\* the setSignals updater that starts a new list with each update
setSignals_reset(prev, signalData) == <<signalData>>

\* the setSignals updater with a field-level merge in place of replacement
setSignals_merge(prev, signalData) ==
    LET index == findIndex(prev, signalData.id)
    IN  IF index >= 1
        THEN [prev EXCEPT ![index] = Spread(prev[index], signalData)]
        ELSE Append(prev, signalData)

\* the updater passed to setSignals
setSignals(prev, signalData) ==
    LET index == findIndex(prev, signalData.id)
    IN  IF index >= 1
        THEN [prev EXCEPT ![index] = signalData]
        ELSE Append(prev, signalData)

\* setMetrics with a field-level merge into the previous snapshot
setMetrics_merge(prev, metricsData) ==
    IF prev = Null \/ prev = Undefined \/ metricsData = Undefined
    THEN metricsData
    ELSE Spread(prev, metricsData)

\* setMetrics(metricsData)
setMetrics(prev, metricsData) == metricsData

\* ------------------------------------------------- RealTimeMonitor code
\* the JavaScript object {}
EmptyObject == [k \in {} |-> 0]

\* useState<MonitoringStats>({ average_accuracy: 0, ... })
InitialStats ==
    [average_accuracy |-> 0, total_signals |-> 0, active_signals |-> 0,
     successful_predictions |-> 0]

\* The documents JSON.parse hands to RealTimeMonitor's onmessage: the three
\* handled types, with full and partial payloads, one without its payload
\* property, one of a type the monitor does not handle, and null.
MonitorDocs ==
    [type : {"signals_update"},
     signals : {<<>>, <<[id |-> 1]>>, <<[id |-> 2], [id |-> 1]>>}]
    \cup [type : {"market_data"},
          data : {[BTC |-> [volume |-> 1]], [ETH |-> [volume |-> 2]]}]
    \cup [type : {"stats_update"},
          stats : {[average_accuracy |-> 90, total_signals |-> 10,
                    active_signals |-> 2, successful_predictions |-> 9],
                   [average_accuracy |-> 80]}]
    \cup {[type |-> "stats_update"],
          [type |-> "signal_update", data |-> [id |-> 1]],
          Null}

\* onmessage with setters that merge into the previous slice
monitorOnmessage_merge(st, data) ==
    IF data = Null THEN st
    ELSE IF data.type = "signals_update"
    THEN [st EXCEPT !.activeSignals = Get(data, "signals")]
    ELSE IF data.type = "market_data"
    THEN [st EXCEPT !.marketData = Spread(st.marketData, Get(data, "data"))]
    ELSE IF data.type = "stats_update"
    THEN [st EXCEPT !.stats = Spread(st.stats, Get(data, "stats"))]
    ELSE st

\* ws.onmessage of RealTimeMonitor applied to the decoded document: reading
\* data.type of null throws before any setter is called
monitorOnmessage(st, data) ==
    IF data = Null THEN st
    ELSE IF data.type = "signals_update"
    THEN [st EXCEPT !.activeSignals = Get(data, "signals")]
    ELSE IF data.type = "market_data"
    THEN [st EXCEPT !.marketData = Get(data, "data")]
    ELSE IF data.type = "stats_update"
    THEN [st EXCEPT !.stats = Get(data, "stats")]
    ELSE st

\* the frames sent to RealTimeMonitor while its attachment is observed
AttachDocs ==
    {[type |-> "signals_update", signals |-> <<[id |-> 1]>>],
     [type |-> "market_data", data |-> [BTC |-> [volume |-> 1]]]}

\* a message event that is kept for the handler attached later
hasListener_buffered(k, attached) == TRUE

\* A message event on socket k runs a callback only if the effect has set
\* ws.onmessage on that socket; the hook itself sets no onmessage.
hasListener(k, attached) == k \in attached

\* --------------------------------------------------- useWebSocket code
\* The ws that the effect's cleanup closure sees: the effect runs once (its
\* dependency is the url, a constant at the only call site), in the first
\* render, where the state ws is still null.
CapturedWs == 0

\* clearTimeout(id) where id may be unset: `if (reconnectTimeout.current)`
clearTimeout(tms, id) == {t \in tms : t.id # id}

\* onclose that doubles the delay with each timer
hookOnclose_backoff(cnt, tms) ==
    [cnt |-> cnt + 1,
     tms |-> tms \cup {[id |-> cnt + 1, delay |-> reconnectDelay * Pow2(cnt)]},
     ref |-> cnt + 1]

\* onclose that gives up after maxReconnectAttempts timers
hookOnclose_capped(cnt, tms) ==
    IF cnt < maxReconnectAttempts
    THEN [cnt |-> cnt + 1,
          tms |-> tms \cup {[id |-> cnt + 1, delay |-> reconnectDelay]},
          ref |-> cnt + 1]
    ELSE [cnt |-> cnt, tms |-> tms, ref |-> 0]

\* websocket.onclose: reconnectTimeout.current = setTimeout(connect, 5000);
\* cnt is the number of setTimeout calls so far, which numbers the timers
hookOnclose(cnt, tms) ==
    [cnt |-> cnt + 1,
     tms |-> tms \cup {[id |-> cnt + 1, delay |-> reconnectDelay]},
     ref |-> cnt + 1]

\* the switch without the break of the signal_update case: control falls
\* through into the metrics_update case
switchOnType_fallthrough(sig, met, message) ==
    IF message.type = "signal_update"
    THEN [signals |-> setSignals(sig, Get(message, "data")),
          metrics |-> setMetrics(met, Get(message, "data"))]
    ELSE IF message.type = "metrics_update"
    THEN [signals |-> sig, metrics |-> setMetrics(met, Get(message, "data"))]
    ELSE [signals |-> sig, metrics |-> met]

\* switch (message.type) of handleMessage: two cases, each ended by break,
\* and no default; message.data is undefined when the message has no data
switchOnType(sig, met, message) ==
    IF message.type = "signal_update"
    THEN [signals |-> setSignals(sig, Get(message, "data")), metrics |-> met]
    ELSE IF message.type = "metrics_update"
    THEN [signals |-> sig, metrics |-> setMetrics(met, Get(message, "data"))]
    ELSE [signals |-> sig, metrics |-> met]

\* handleMessage called n times with message (once per registration that
\* forEach reached): each call runs the switch and is recorded in seen
RECURSIVE invokeHandleMessage(_, _, _)
invokeHandleMessage(st, message, n) ==
    IF n = 0 THEN st
    ELSE LET r == switchOnType(st.signals, st.metrics, message)
         IN  invokeHandleMessage([signals |-> r.signals,
                                  metrics |-> r.metrics,
                                  seen |-> Append(st.seen, message)],
                                 message, n - 1)

\* ------------------------------------------- MonitoringPanel effect code
\* wsService.addMessageHandler(handleMessage) in the effect body
panelSetup(hs) == Append(hs, "handleMessage")

\* a cleanup that leaves the handler registered
panelCleanup_keepsHandler(hs) == hs

\* wsService.removeMessageHandler(handleMessage) in the effect's cleanup
panelCleanup(hs) == filterOut(hs, "handleMessage")

\* ------------------------------------------------------------------ Init
Init ==
    /\ ws = 0
    /\ sock = [s \in Slots |-> "none"]
    /\ reconnectAttempts = 0
    /\ messageHandlers = <<>>
    /\ timers = EmptyBag
    /\ delivered = <<>>
    /\ frames = 0
    /\ badSeen = {}
    /\ lastOp = [op |-> "init"]
    /\ clientMode = "none"
    /\ attempts = 0
    /\ cleanDisconnect = FALSE
    /\ ctorThrows \in BOOLEAN
    /\ raised = FALSE
    /\ signals = <<>>
    /\ metrics = Null
    /\ seen = <<>>
    /\ activeSignals = <<>>
    /\ marketData = EmptyObject
    /\ stats = InitialStats
    /\ monLast = Null
    /\ monCount = 0
    /\ hookMounted = "no"
    /\ hookSock = <<>>
    /\ hookWs = 0
    /\ hookRef = 0
    /\ hookTimers = {}
    /\ hookTimerCount = 0
    /\ hookLast = [op |-> "init"]
    /\ panelMounted = "no"
    /\ calls = <<>>
    /\ monAttached = {}
    /\ monEffectWs = 0
    /\ monDropped = 0

\* --------------------------------------------------------- client operations
\* The service is Connected and nothing else is going on.
Connected ==
    /\ ws # 0
    /\ sock[ws] = "open"
    /\ \A s \in Slots : s # ws => sock[s] = "none"
    /\ timers = EmptyBag

Connect ==
    /\ connect(timers)
    /\ lastOp' = [op |-> "connect"]
    /\ clientMode' = IF clientMode = "none" THEN "once" ELSE "other"
    /\ cleanDisconnect' = FALSE
    /\ UNCHANGED <<messageHandlers, delivered, frames, attempts, ctorThrows>>
    /\ UNCHANGED <<panelVars, monitorVars, hookVars, lifeVars, attachVars>>

Disconnect ==
    /\ IF ws # 0
       THEN sock' = Collect([sock EXCEPT ![ws] = closeSocket(sock[ws])], 0)
       ELSE sock' = sock
    /\ ws' = 0
    /\ badSeen' = (badSeen \cap {t \in Slots : sock'[t] # "none"})
    /\ lastOp' = [op |-> "disconnect",
                  was |-> IF ws = 0 THEN "null" ELSE sock[ws],
                  pending |-> timers # EmptyBag]
    /\ clientMode' = "other"
    /\ cleanDisconnect' = (cleanDisconnect \/ Connected)
    /\ raised' = FALSE
    /\ UNCHANGED <<reconnectAttempts, messageHandlers, timers, delivered,
                   frames, attempts, ctorThrows>>
    /\ UNCHANGED <<panelVars, monitorVars, hookVars, lifeVars, attachVars>>

\* addMessageHandler(h) for a callback out of ids, the registry bounded by max
addMessageHandler(ids, max) ==
    \E h \in ids :
        /\ Len(messageHandlers) < max
        /\ messageHandlers' = Append(messageHandlers, h)
        /\ lastOp' = [op |-> "add", h |-> h]
        /\ raised' = FALSE
        /\ UNCHANGED <<ws, sock, reconnectAttempts, timers, delivered, frames,
                       badSeen, clientMode, attempts, cleanDisconnect,
                       ctorThrows>>
        /\ UNCHANGED <<panelVars, monitorVars, hookVars, lifeVars, attachVars>>

\* addMessageHandler of any callback, unsubscribing ones included, by a
\* client that registers its handlers before it calls connect()
AddAnyHandler ==
    /\ clientMode = "none"
    /\ addMessageHandler(HandlerIds \cup RemoverIds, MaxRegistry)

AddMessageHandler == addMessageHandler(HandlerIds, MaxHandlers)

RemoveMessageHandler ==
    \E h \in HandlerIds :
        /\ messageHandlers' = filterOut(messageHandlers, h)
        /\ lastOp' = [op |-> "remove", h |-> h]
        /\ raised' = FALSE
        /\ UNCHANGED <<ws, sock, reconnectAttempts, timers, delivered, frames,
                       badSeen, clientMode, attempts, cleanDisconnect,
                       ctorThrows>>
        /\ UNCHANGED <<panelVars, monitorVars, hookVars, lifeVars, attachVars>>

\* ------------------------------------------------------------ browser events
\* open event of the socket in slot s
SocketOpen ==
    \E s \in Slots :
        /\ sock[s] = "connecting"
        /\ sock' = [sock EXCEPT ![s] = "open"]
        /\ reconnectAttempts' = onopen(reconnectAttempts)
        /\ attempts' = 0
        /\ UNCHANGED <<panelVars, monitorVars, hookVars, lifeVars, attachVars>>
        /\ lastOp' = [op |-> "open", s |-> s, before |-> reconnectAttempts]
        /\ UNCHANGED <<ws, messageHandlers, timers, delivered, frames, badSeen,
                       clientMode, cleanDisconnect, ctorThrows, raised>>
        /\ UNCHANGED <<panelVars, monitorVars, hookVars, lifeVars, attachVars>>

\* message event of the open socket in slot s: onmessage runs the handlers,
\* and each run of MonitoringPanel's handleMessage sets the panel's state
SocketMessage ==
    \E s \in Slots, raw \in RawFrames :
        /\ sock[s] = "open"
        /\ frames < MaxFrames
        /\ frames' = frames + 1
        /\ LET r == onmessage(messageHandlers, raw, frames + 1, delivered)
               m == JSONParse(raw).value
               \* the invocations of handleMessage in this delivery that got
               \* past reading message.type
               n == IF m = Null THEN 0
                    ELSE Cardinality({k \in (Len(delivered) + 1)..Len(r.log) :
                                        r.log[k][2] = "handleMessage"})
               p == invokeHandleMessage([signals |-> signals,
                                         metrics |-> metrics,
                                         seen |-> seen], m, n)
           IN  /\ delivered' = r.log
               /\ messageHandlers' = r.reg
               /\ raised' = r.escaped
               /\ signals' = p.signals
               /\ metrics' = p.metrics
               /\ seen' = p.seen
        /\ badSeen' = IF JSONParse(raw).ok THEN badSeen ELSE badSeen \cup {s}
        /\ lastOp' = [op |-> "message", s |-> s, raw |-> raw]
        /\ UNCHANGED <<ws, sock, reconnectAttempts, timers,
                       clientMode, attempts, cleanDisconnect, ctorThrows>>
        /\ UNCHANGED <<monitorVars, hookVars, lifeVars, attachVars>>

\* close event of the socket in slot s: the connection failed, was dropped,
\* or the closing handshake that close() started has finished
SocketClose ==
    \E s \in Slots :
        /\ sock[s] \in {"connecting", "open", "closing"}
        /\ RoomForTimer(reconnectAttempts, timers)
        /\ sock' = Collect([sock EXCEPT ![s] = "closed"], ws)
        /\ badSeen' = (badSeen \cap {t \in Slots : sock'[t] # "none"})
        /\ LET r == handleReconnect(reconnectAttempts, timers)
           IN  /\ reconnectAttempts' = r.ra
               /\ timers' = r.tm
        /\ lastOp' = [op |-> "close", s |-> s, was |-> sock[s]]
        /\ UNCHANGED <<ws, messageHandlers, delivered, frames, clientMode,
                       attempts, cleanDisconnect, ctorThrows, raised>>
        /\ UNCHANGED <<panelVars, monitorVars, hookVars, lifeVars, attachVars>>

\* a pending reconnection timer fires and runs connect()
TimerFire ==
    \E d \in BagToSet(timers) :
        /\ connect(timers (-) SetToBag({d}))
        /\ attempts' = attempts + 1
        /\ lastOp' = [op |-> "timer", d |-> d]
        /\ UNCHANGED <<messageHandlers, delivered, frames, clientMode,
                       cleanDisconnect, ctorThrows>>
        /\ UNCHANGED <<panelVars, monitorVars, hookVars, lifeVars, attachVars>>

\* ------------------------------------------------------- MonitoringPanel
\* handleMessage(message): the switch on message.type
HandleMessage ==
    \E message \in Messages :
        /\ Len(seen) < MaxMsgs
        /\ seen' = Append(seen, message)
        /\ LET st == switchOnType(signals, metrics, message)
           IN  /\ signals' = st.signals
               /\ metrics' = st.metrics
        /\ UNCHANGED <<svcVars, monitorVars, hookVars, lifeVars, attachVars>>

\* ------------------------------------------------ MonitoringPanel effect
\* The panel mounts: its effect registers handleMessage and then calls
\* connect(), both in one run of the effect.
PanelMount ==
    /\ panelMounted = "no"
    /\ panelMounted' = "yes"
    /\ messageHandlers' = panelSetup(messageHandlers)
    /\ connect(timers)
    /\ calls' = calls \o <<"addMessageHandler", "connect">>
    /\ lastOp' = [op |-> "connect"]
    /\ clientMode' = IF clientMode = "none" THEN "once" ELSE "other"
    /\ cleanDisconnect' = FALSE
    /\ UNCHANGED <<delivered, frames, attempts, ctorThrows>>
    /\ UNCHANGED <<panelVars, monitorVars, hookVars, attachVars>>

\* The panel unmounts: the cleanup removes handleMessage and then calls
\* disconnect().
PanelUnmount ==
    /\ panelMounted = "yes"
    /\ panelMounted' = "gone"
    /\ messageHandlers' = panelCleanup(messageHandlers)
    /\ IF ws # 0
       THEN sock' = Collect([sock EXCEPT ![ws] = closeSocket(sock[ws])], 0)
       ELSE sock' = sock
    /\ ws' = 0
    /\ badSeen' = (badSeen \cap {t \in Slots : sock'[t] # "none"})
    /\ calls' = calls \o <<"removeMessageHandler", "disconnect">>
    /\ lastOp' = [op |-> "disconnect",
                  was |-> IF ws = 0 THEN "null" ELSE sock[ws],
                  pending |-> timers # EmptyBag]
    /\ clientMode' = "other"
    /\ cleanDisconnect' = (cleanDisconnect \/ Connected)
    /\ raised' = FALSE
    /\ UNCHANGED <<reconnectAttempts, timers, delivered, frames, attempts,
                   ctorThrows>>
    /\ UNCHANGED <<panelVars, monitorVars, hookVars, attachVars>>

\* The service as MonitoringPanel drives it, with the browser's events.
LifeNext ==
    \/ PanelMount
    \/ PanelUnmount
    \/ SocketOpen
    \/ SocketMessage
    \/ SocketClose
    \/ TimerFire

LifeSpec == Init /\ [][LifeNext]_vars

\* ---------------------------------------------------------- useWebSocket
\* connect() of the hook: a new socket in state CONNECTING
hookConnect == hookSock' = Append(hookSock, "connecting")

\* the component mounts: the effect runs and calls connect()
HookMount ==
    /\ hookMounted = "no"
    /\ hookMounted' = "yes"
    /\ hookConnect
    /\ hookLast' = [op |-> "mount"]
    /\ UNCHANGED <<hookWs, hookRef, hookTimers, hookTimerCount>>
    /\ UNCHANGED <<svcVars, panelVars, monitorVars, lifeVars, attachVars>>

\* open event of the k-th socket: setWs(websocket) (ignored by React once
\* the component is gone) and clearTimeout of the timer the ref names
HookOpen ==
    \E k \in 1..Len(hookSock) :
        /\ hookSock[k] = "connecting"
        /\ hookSock' = [hookSock EXCEPT ![k] = "open"]
        /\ hookWs' = IF hookMounted = "yes" THEN k ELSE hookWs
        /\ hookTimers' = clearTimeout(hookTimers, hookRef)
        /\ hookLast' = [op |-> "open", k |-> k]
        /\ UNCHANGED <<hookMounted, hookRef, hookTimerCount>>
        /\ UNCHANGED <<svcVars, panelVars, monitorVars, lifeVars, attachVars>>

\* close event of the k-th socket: the connection could not be made
\* ("failed") or an open connection was lost ("closed")
HookClose ==
    \E k \in 1..Len(hookSock) :
        /\ hookSock[k] \in {"connecting", "open"}
        /\ hookSock' = [hookSock EXCEPT
                           ![k] = IF hookSock[k] = "open" THEN "closed"
                                                          ELSE "failed"]
        /\ hookWs' = IF hookMounted = "yes" THEN 0 ELSE hookWs
        /\ LET r == hookOnclose(hookTimerCount, hookTimers)
           IN  /\ hookTimerCount' = r.cnt
               /\ hookTimers' = r.tms
               /\ hookRef' = IF r.ref = 0 THEN hookRef ELSE r.ref
        /\ hookLast' = [op |-> "close", k |-> k]
        /\ UNCHANGED hookMounted
        /\ UNCHANGED <<svcVars, panelVars, monitorVars, lifeVars, attachVars>>

\* a pending timer fires and runs connect()
HookTimerFire ==
    \E t \in hookTimers :
        /\ Len(hookSock) < MaxHookSockets
        /\ hookTimers' = hookTimers \ {t}
        /\ hookConnect
        /\ hookLast' = [op |-> "timer", id |-> t.id]
        /\ UNCHANGED <<hookMounted, hookWs, hookRef, hookTimerCount>>
        /\ UNCHANGED <<svcVars, panelVars, monitorVars, lifeVars, attachVars>>

\* the component unmounts: the effect's cleanup runs
HookUnmount ==
    /\ hookMounted = "yes"
    /\ hookMounted' = "gone"
    /\ hookSock' = IF CapturedWs # 0
                   THEN [hookSock EXCEPT ![CapturedWs] = closeSocket(@)]
                   ELSE hookSock
    /\ hookTimers' = clearTimeout(hookTimers, hookRef)
    /\ hookLast' = [op |-> "unmount"]
    /\ UNCHANGED <<hookWs, hookRef, hookTimerCount>>
    /\ UNCHANGED <<svcVars, panelVars, monitorVars, lifeVars, attachVars>>

HookNext ==
    \/ HookMount
    \/ HookOpen
    \/ HookClose
    \/ HookTimerFire
    \/ HookUnmount

HookSpec == Init /\ [][HookNext]_vars

\* ------------------------------------------------------- RealTimeMonitor
\* message event on the socket RealTimeMonitor got from useWebSocket
MonitorMessage ==
    \E data \in MonitorDocs :
        /\ monCount < MaxMonMsgs
        /\ monCount' = monCount + 1
        /\ monLast' = data
        /\ LET st == monitorOnmessage([activeSignals |-> activeSignals,
                                       marketData |-> marketData,
                                       stats |-> stats], data)
           IN  /\ activeSignals' = st.activeSignals
               /\ marketData' = st.marketData
               /\ stats' = st.stats
        /\ UNCHANGED <<svcVars, panelVars, hookVars, lifeVars, attachVars>>

MonitorNext == MonitorMessage

\* RealTimeMonitor's effect, run by React after a render in which ws differs
\* from the ws of the previous run: `if (ws) ws.onmessage = ...`
MonitorEffect ==
    /\ hookMounted = "yes"
    /\ hookWs # monEffectWs
    /\ monEffectWs' = hookWs
    /\ monAttached' = IF hookWs # 0 THEN monAttached \cup {hookWs}
                                    ELSE monAttached
    /\ hookLast' = [op |-> "effect", ws |-> hookWs]
    /\ UNCHANGED <<hookMounted, hookSock, hookWs, hookRef, hookTimers,
                   hookTimerCount, monDropped>>
    /\ UNCHANGED <<svcVars, panelVars, monitorVars, lifeVars>>

\* message event on the open socket k of the hook
MonitorFrame ==
    \E k \in 1..Len(hookSock), data \in AttachDocs :
        /\ hookSock[k] = "open"
        /\ monCount + monDropped < MaxMonMsgs
        /\ IF hasListener(k, monAttached)
           THEN LET st == monitorOnmessage([activeSignals |-> activeSignals,
                                            marketData |-> marketData,
                                            stats |-> stats], data)
                IN  /\ activeSignals' = st.activeSignals
                    /\ marketData' = st.marketData
                    /\ stats' = st.stats
                    /\ monLast' = data
                    /\ monCount' = monCount + 1
                    /\ UNCHANGED monDropped
           ELSE /\ monDropped' = monDropped + 1
                /\ UNCHANGED monitorVars
        /\ hookLast' = [op |-> "frame", k |-> k, data |-> data]
        /\ UNCHANGED <<hookMounted, hookSock, hookWs, hookRef, hookTimers,
                       hookTimerCount, monAttached, monEffectWs>>
        /\ UNCHANGED <<svcVars, panelVars, lifeVars>>

\* the hook's timer callback, for a bounded number of sockets
AttachTimerFire == Len(hookSock) < MaxAttachSockets /\ HookTimerFire

\* RealTimeMonitor on top of useWebSocket: the hook's sockets, React running
\* the monitor's effect some time after each change of ws, and frames
\* arriving on whichever socket is open.
AttachNext ==
    \/ HookMount
    \/ HookOpen
    \/ HookClose
    \/ AttachTimerFire
    \/ MonitorEffect
    \/ MonitorFrame

AttachSpec == Init /\ [][AttachNext]_vars

MonitorSpec == Init /\ [][MonitorNext]_vars

PanelNext == HandleMessage

PanelSpec == Init /\ [][PanelNext]_vars

\* The client of MonitoringPanel's effect: connect() is called once and
\* disconnect() not before the panel goes away.
ConnectOnce == clientMode = "none" /\ Connect

\* Connection life cycle under every interleaving of the client's connect()
\* and disconnect() with the browser's events.
Next ==
    \/ Connect
    \/ Disconnect
    \/ SocketOpen
    \/ SocketClose
    \/ TimerFire

Spec == Init /\ [][Next]_vars

\* Handler registry and frame delivery on the connection of a client that
\* connects once, with the reconnection cycle running underneath.
DeliveryNext ==
    \/ ConnectOnce
    \/ AddMessageHandler
    \/ RemoveMessageHandler
    \/ SocketOpen
    \/ SocketMessage
    \/ SocketClose
    \/ TimerFire

DeliverySpec == Init /\ [][DeliveryNext]_vars

\* Frame delivery on an open connection to handlers that may unsubscribe
\* themselves or others while a frame is being delivered.
\* A client that registers its handlers, connects and then makes no further
\* call: whatever happens afterwards is the service's own doing.  A callback
\* handed to setTimeout is run by the event loop once its delay has passed,
\* hence the weak fairness of TimerFire.
AddBeforeConnect == clientMode = "none" /\ AddMessageHandler

RecoveryNext ==
    \/ AddBeforeConnect
    \/ ConnectOnce
    \/ SocketOpen
    \/ SocketMessage
    \/ SocketClose
    \/ TimerFire

RecoverySpec == Init /\ [][RecoveryNext]_vars /\ WF_vars(TimerFire)

\* A client that uses all four public operations in any order, with the
\* browser's events in between.
AddObserver == addMessageHandler({"observer"}, MaxHandlers)

ApiNext ==
    \/ Connect
    \/ Disconnect
    \/ AddObserver
    \/ RemoveMessageHandler
    \/ SocketOpen
    \/ SocketClose
    \/ TimerFire

ApiSpec == Init /\ [][ApiNext]_vars

RemovalNext ==
    \/ AddAnyHandler
    \/ ConnectOnce
    \/ SocketOpen
    \/ SocketMessage

RemovalSpec == Init /\ [][RemovalNext]_vars

\* ============================================================== claims
\* The service waits to reconnect: this.ws is a closed socket and a
\* reconnection timer is pending.
Reconnecting == ws # 0 /\ sock[ws] = "closed" /\ timers # EmptyBag

\* C1: once disconnect() has been called on a connected service and connect()
\* is not called again, no reconnection timer is scheduled and no socket is
\* connecting or open.
C1_NoReconnectAfterDisconnect ==
    cleanDisconnect => (timers = EmptyBag /\ Live(sock) = {})

\* C2: disconnect() called while a reconnection timer is pending (the service
\* is Reconnecting) cancels it: right after the call no timer is pending.
C2_DisconnectCancelsTimer ==
    (lastOp.op = "disconnect" /\ lastOp.was = "closed" /\ lastOp.pending)
        => timers = EmptyBag

\* C3: in every reachable state at most one socket made by the service is
\* connecting or open.
C3_AtMostOneLiveSocket == Cardinality(Live(sock)) <= 1

\* C4: connect() called while the current socket is connecting or open is a
\* no-op: the socket, this.ws, the retry counter, the timers and the handler
\* list stay as they are.
C4_ConnectIdempotent ==
    [][(lastOp'.op = "connect" /\ ws # 0 /\ sock[ws] \in {"connecting", "open"})
          => UNCHANGED <<ws, sock, reconnectAttempts, timers, messageHandlers>>]_vars

\* No socket is connecting or open and no timer is pending.
Down == Live(sock) = {} /\ timers = EmptyBag

\* C5: when the client connected once and every reopen attempt fails, the
\* timers make exactly 5 connect() calls since the last open and never a 6th;
\* when the service is down after them no timer is pending, and a close event
\* or a timer callback invokes no handler.
C5_CapFiveAttempts ==
    [][/\ attempts' <= maxReconnectAttempts
       /\ (clientMode' = "once" /\ Down') => attempts' = maxReconnectAttempts
       /\ lastOp'.op \in {"close", "timer"} => delivered' = delivered]_vars

\* C5 witness: a socket opened and delivered a frame, closed, and all five
\* reconnection attempts failed.
C5_Witness ==
    /\ ~ctorThrows /\ delivered # <<>>
    /\ clientMode = "once" /\ Down /\ lastOp.op = "close"
    /\ attempts = maxReconnectAttempts
    /\ reconnectAttempts = maxReconnectAttempts

\* the last message handed to handleMessage
LastSeen == seen[Len(seen)]

SeenIds ==
    {seen[i].data.id : i \in {j \in 1..Len(seen) : seen[j].type = "signal_update"}}

\* payload of the last signal_update that carried id
LastPayload(id) ==
    LET js == {j \in 1..Len(seen) :
                  seen[j].type = "signal_update" /\ seen[j].data.id = id}
    IN  seen[CHOOSE j \in js : \A k \in js : k <= j].data

\* C6: after any sequence of messages, each id seen in a signal_update has
\* exactly one entry in signals, equal to the payload of the last
\* signal_update with that id, and signals has one entry per distinct id.
C6_LastPayloadWins ==
    /\ \A id \in SeenIds :
          /\ Cardinality({i \in 1..Len(signals) : signals[i].id = id}) = 1
          /\ \E i \in 1..Len(signals) : signals[i] = LastPayload(id)
    /\ Len(signals) = Cardinality(SeenIds)

\* C6 witness: an id was updated with a payload that lacks a field its
\* earlier payload had, and a second id is present.
C6_Witness ==
    /\ Len(signals) = 2
    /\ \E i, j \in 1..Len(seen) :
          /\ i < j
          /\ seen[i].type = "signal_update" /\ seen[j].type = "signal_update"
          /\ seen[i].data.id = seen[j].data.id
          /\ "leverage" \in DOMAIN seen[i].data
          /\ "leverage" \notin DOMAIN seen[j].data
          /\ seen[j].data = LastPayload(seen[j].data.id)

\* C7: right after a metrics_update the snapshot is that message's payload.
C7_MetricsReplaced ==
    (seen # <<>> /\ LastSeen.type = "metrics_update")
        => metrics = Get(LastSeen, "data")

\* C7 witness: a metrics_update with fewer fields replaced an earlier snapshot.
C7_Witness ==
    /\ Len(seen) >= 2
    /\ LastSeen.type = "metrics_update"
    /\ seen[Len(seen) - 1].type = "metrics_update"
    /\ "data" \in DOMAIN LastSeen /\ "data" \in DOMAIN seen[Len(seen) - 1]
    /\ DOMAIN LastSeen.data # DOMAIN seen[Len(seen) - 1].data
    /\ DOMAIN LastSeen.data \subseteq DOMAIN seen[Len(seen) - 1].data
    /\ metrics = LastSeen.data

\* C8: a frame that fails to parse invokes no handler and leaves the sockets,
\* this.ws, the retry counter, the timers and the handlers as they are; a
\* later well-formed frame on the same socket is handed to the handlers.
C8_MalformedFrameDropped ==
    [][/\ (lastOp'.op = "message" /\ ~JSONParse(lastOp'.raw).ok)
            => /\ delivered' = delivered
               /\ UNCHANGED <<ws, sock, reconnectAttempts, timers,
                              messageHandlers>>
       /\ (/\ lastOp'.op = "message" /\ JSONParse(lastOp'.raw).ok
           /\ lastOp'.s \in badSeen /\ messageHandlers # <<>>)
            => /\ Len(delivered') > Len(delivered)
               /\ delivered'[Len(delivered) + 1] = <<frames', messageHandlers[1]>>
               /\ sock'[lastOp'.s] = "open"]_vars

\* C8 witness: a well-formed frame was delivered on a socket that had
\* received a malformed frame before.
C8_Witness ==
    /\ lastOp.op = "message" /\ JSONParse(lastOp.raw).ok
    /\ lastOp.s \in badSeen
    /\ sock[lastOp.s] = "open"
    /\ delivered # <<>> /\ delivered[Len(delivered)][1] = frames

\* C9: every decoded frame is delivered to every registered handler, in
\* registration order, all deliveries of a frame before those of the next.
C9_DeliveryOrder ==
    [][(lastOp'.op = "message" /\ JSONParse(lastOp'.raw).ok)
          => delivered' = delivered \o
                [i \in 1..Len(messageHandlers) |-> <<frames', messageHandlers[i]>>]]_vars

\* C10: an open event leaves the retry counter at zero, and for a client that
\* connected once the counter is the number of reconnections made or
\* scheduled since the last open, so each open gives back all 5 attempts.
C10_OpenResetsCounter ==
    /\ lastOp.op = "open" => reconnectAttempts = 0
    /\ clientMode = "once"
          => reconnectAttempts = attempts + BagCardinality(timers)

\* C10 witness: a socket opened after all 5 attempts had been used.
C10_Witness ==
    /\ lastOp.op = "open" /\ lastOp.before = maxReconnectAttempts
    /\ reconnectAttempts = 0

\* The timer that fired in this step, and the delays of the timers that this
\* step scheduled.
Fired == IF lastOp'.op = "timer" THEN SetToBag({lastOp'.d}) ELSE EmptyBag

NewDelays == BagToSet(timers' (-) (timers (-) Fired))

\* C11 as stated: the reconnection scheduled when n attempts have been made
\* since the last open is delayed by 1000 * 2^n ms (1000 ms for the first).
C11_DelayFromAttemptCount ==
    [][(clientMode' = "once" /\ reconnectAttempts' = reconnectAttempts + 1)
          => NewDelays = {baseDelay * Pow2(attempts')}]_vars

\* C11 amended: the delay is 1000 * 2^c ms for the counter c after its
\* increment, that is 1000 * 2^(n+1) ms when n attempts have been made since
\* the last open (2000 ms for the first); the delay after a failed attempt is
\* twice the delay that preceded the attempt.
C11_DelayDoubles ==
    [][reconnectAttempts' = reconnectAttempts + 1
          => /\ NewDelays = {baseDelay * Pow2(reconnectAttempts')}
             /\ clientMode' = "once"
                   => NewDelays = {baseDelay * Pow2(attempts' + 1)}
             /\ (clientMode' = "once" /\ lastOp.op = "timer"
                                      /\ lastOp'.op = "close")
                   => NewDelays = {2 * lastOp.d}]_vars

\* C11 witness: the fifth reconnection was scheduled, 32000 ms ahead, after
\* four failed attempts.
C11_Witness ==
    /\ clientMode = "once" /\ lastOp.op = "close"
    /\ attempts = 4
    /\ timers = SetToBag({32000})

Range(f) == {f[i] : i \in DOMAIN f}

\* the handlers a log records for frame number f
InvokedFor(log, f) == {log[k][2] : k \in {j \in 1..Len(log) : log[j][1] = f}}

\* C12: removeMessageHandler(h) leaves the list as it is when h is not
\* registered; otherwise it removes every registration of h and keeps the
\* others in their order; it leaves the sockets, this.ws, the retry counter
\* and the timers alone and invokes nobody; a frame that arrives later is
\* handed only to handlers registered at that time, so never to h.
C12_RemoveHandler ==
    [][/\ lastOp'.op = "remove"
            => LET h == lastOp'.h
               IN  /\ h \notin Range(messageHandlers)
                         => messageHandlers' = messageHandlers
                   /\ h \notin Range(messageHandlers')
                   /\ messageHandlers' =
                         SelectSeq(messageHandlers, LAMBDA x : x # h)
                   /\ UNCHANGED <<ws, sock, reconnectAttempts, timers,
                                  delivered>>
       /\ lastOp'.op = "message"
            => \A k \in (Len(delivered) + 1)..Len(delivered') :
                  delivered'[k][2] \in Range(messageHandlers)]_vars

\* C12 witness: a handler that received frame 1 was removed, and frame 2 went
\* to another handler but not to it.
C12_Witness ==
    /\ lastOp.op = "message" /\ frames = 2
    /\ \E h \in HandlerIds :
          /\ h \notin Range(messageHandlers)
          /\ h \in InvokedFor(delivered, 1)
          /\ h \notin InvokedFor(delivered, 2)
          /\ InvokedFor(delivered, 2) # {}

\* number of registrations of h in the registry hs
Registrations(hs, h) == Cardinality({i \in 1..Len(hs) : hs[i] = h})

\* C13: when a handler calls removeMessageHandler while a frame is being
\* delivered, every handler still registered afterwards has been invoked for
\* that frame once per registration, neither skipped nor invoked again.
C13_RemovalDuringDelivery ==
    [][(/\ lastOp'.op = "message" /\ JSONParse(lastOp'.raw).ok
        /\ \E i \in 1..Len(delivered') :
              delivered'[i][1] = frames' /\ delivered'[i][2] \in RemoverIds)
          => \A h \in Range(messageHandlers') :
                Cardinality({k \in 1..Len(delivered') :
                                delivered'[k] = <<frames', h>>})
                    = Registrations(messageHandlers', h)]_vars

\* C14: no call of connect, disconnect, addMessageHandler or
\* removeMessageHandler raises to its caller, whatever the state.  When
\* `new WebSocket` throws inside connect(), connect() returns normally, the
\* socket reference and the sockets are left as they were, and the failure
\* enters handleReconnect: below the cap the counter grows by one and exactly
\* one timer is armed, at the cap nothing is scheduled.
C14_NoOperationRaises ==
    [][/\ raised' = FALSE
       /\ (lastOp'.op = "connect" /\ ctorThrows)
             => /\ UNCHANGED <<ws, sock, messageHandlers>>
                /\ IF reconnectAttempts < maxReconnectAttempts
                   THEN /\ reconnectAttempts' = reconnectAttempts + 1
                        /\ BagCardinality(timers') = BagCardinality(timers) + 1
                        /\ NewDelays = {baseDelay * Pow2(reconnectAttempts')}
                   ELSE UNCHANGED <<reconnectAttempts, timers>>]_vars

\* connect() was called while the constructor throws, after the handlers
\* were changed: it returned normally and a reconnection is pending
C14_Witness ==
    /\ ctorThrows
    /\ lastOp.op = "connect"
    /\ ~raised
    /\ reconnectAttempts >= 1
    /\ timers # EmptyBag
    /\ messageHandlers # <<>>


\* C15: after a close that the client did not ask for, with the counter below
\* the cap, a timer is pending and (the timer firing) connect() is run again
\* without any call by the client.  Closing, the timer and the open event
\* leave the registry alone; when the socket made by the timer opens the
\* service is Connected on that socket; and a frame that arrives, afterwards
\* as before (a document no handler throws on), is handed to every registered
\* handler in registration order.
C15_RecoversByItself ==
    /\ [][lastOp'.op = "close" /\ reconnectAttempts < maxReconnectAttempts
             => /\ timers' # EmptyBag
                /\ reconnectAttempts' = reconnectAttempts + 1]_vars
    /\ [][lastOp'.op \in {"close", "timer", "open"}
             => UNCHANGED messageHandlers]_vars
    /\ [][lastOp'.op = "open" /\ attempts >= 1
             => Connected' /\ ws' = lastOp'.s]_vars
    /\ [][(/\ lastOp'.op = "message"
           /\ JSONParse(lastOp'.raw).ok
           /\ \A h \in Range(messageHandlers) :
                  ~Throws(h, JSONParse(lastOp'.raw).value))
             => /\ Len(delivered') = Len(delivered) + Len(messageHandlers)
                /\ \A i \in 1..Len(messageHandlers) :
                      delivered'[Len(delivered) + i] = <<frames', messageHandlers[i]>>
                /\ UNCHANGED messageHandlers]_vars
    /\ ((lastOp.op = "close" /\ timers # EmptyBag) ~> lastOp.op = "timer")

\* the socket made by the second timer has just opened, with both handlers
\* still registered, after a frame had been delivered to them on the first
\* socket
C15_Witness ==
    /\ clientMode = "once"
    /\ lastOp.op = "open"
    /\ lastOp.before = 2
    /\ Connected
    /\ ws = lastOp.s
    /\ Len(messageHandlers) = 2
    /\ InvokedFor(delivered, 1) = Range(messageHandlers)


\* The cap is used up: the counter is at the cap, every socket the service
\* made has closed and no timer is pending.
Exhausted ==
    /\ reconnectAttempts = maxReconnectAttempts
    /\ \A s \in Slots : sock[s] \in {"none", "closed"}
    /\ timers = EmptyBag

\* The client called connect() in the exhausted state and a socket was made.
ConnectedAfterExhaustion ==
    /\ lastOp.op = "connect"
    /\ reconnectAttempts = maxReconnectAttempts
    /\ timers = EmptyBag
    /\ Live(sock) = {ws}
    /\ \A s \in Slots \ {ws} : sock[s] = "none"

\* C16: once the cap is used up the service stays down (no socket connecting,
\* open or closing, no timer pending, counter at the cap) through every step that is
\* not a call of connect().  A call of connect() in that state makes a new
\* socket, which is then the only live one; when that socket opens the
\* counter is zero and the service is Connected; and when that connection is
\* lost the reconnection cycle starts over with its first timer.
C16_ExhaustedUntilConnect ==
    /\ [][(Exhausted /\ lastOp'.op # "connect") => Exhausted']_vars
    /\ [][(Exhausted /\ lastOp'.op = "connect")
             => IF ctorThrows THEN Exhausted'
                ELSE /\ ConnectedAfterExhaustion'
                     /\ sock'[ws'] = "connecting"]_vars
    /\ [][(ConnectedAfterExhaustion /\ lastOp'.op = "open")
             => /\ reconnectAttempts' = 0
                /\ Connected']_vars
    /\ [][(/\ lastOp.op = "open" /\ lastOp.before = maxReconnectAttempts
           /\ Connected
           /\ lastOp'.op = "close" /\ lastOp'.s = ws)
             => /\ reconnectAttempts' = 1
                /\ timers' = SetToBag({baseDelay * Pow2(1)})]_vars

\* the client has called connect() after the cap was used up
C16_Witness ==
    /\ ~ctorThrows
    /\ clientMode = "other"
    /\ ConnectedAfterExhaustion
    /\ sock[ws] = "connecting"
    /\ attempts = maxReconnectAttempts


\* the ids of a signal list, in list order
Ids(arr) == [i \in 1..Len(arr) |-> arr[i].id]

\* the ids carried by the signal_update messages among the first n messages,
\* each id once, in the order of its first appearance
RECURSIVE FirstSeenIds(_)
FirstSeenIds(n) ==
    IF n = 0 THEN <<>>
    ELSE LET before == FirstSeenIds(n - 1)
             m == seen[n]
         IN  IF m.type = "signal_update" /\ m.data.id \notin Range(before)
             THEN Append(before, m.data.id)
             ELSE before

\* C17: a signal_update whose id is not in the list is appended at the end;
\* one whose id is present replaces the entry at the index where that id is
\* and moves nothing; so the ids of the list are always the ids in the order
\* in which each was first seen.
C17_FirstSeenOrder ==
    /\ [](Ids(signals) = FirstSeenIds(Len(seen)))
    /\ [][(Len(seen') = Len(seen) + 1 /\ seen'[Len(seen')].type = "signal_update")
             => LET d == seen'[Len(seen')].data
                    index == findIndex(signals, d.id)
                IN  IF index = 0
                    THEN /\ Len(signals') = Len(signals) + 1
                         /\ signals'[Len(signals')] = d
                         /\ \A i \in 1..Len(signals) : signals'[i] = signals[i]
                    ELSE /\ Len(signals') = Len(signals)
                         /\ signals'[index] = d
                         /\ \A i \in 1..Len(signals) :
                               i # index => signals'[i] = signals[i]]_vars

\* the first of two entries was updated after the second was appended, and
\* the list is not in id order
C17_Witness ==
    /\ Len(seen) = 3
    /\ LastSeen.type = "signal_update"
    /\ Ids(signals) = <<2, 1>>
    /\ signals[1] = LastSeen.data
    /\ Get(seen[1], "data") # LastSeen.data

\* C18: no message, whatever its type, removes a signal: every id in the list
\* before a step is in the list after it, and the list does not get shorter.
C18_NeverRemoved ==
    [][/\ Range(Ids(signals)) \subseteq Range(Ids(signals'))
       /\ Len(signals') >= Len(signals)]_vars

\* two signals are in the list and a message of another type came after them
C18_Witness ==
    /\ Len(seen) = 3
    /\ Len(signals) = 2
    /\ LastSeen.type # "signal_update"
    /\ seen[1].type = "signal_update" /\ seen[2].type = "signal_update"


\* C19: in RealTimeMonitor a signals_update sets activeSignals to the
\* message's signals, a market_data sets marketData to the message's data and
\* a stats_update sets stats to the message's stats; the new slice is exactly
\* the message's value (no key or entry of the old slice survives unless the
\* message carries it) and the two other slices keep their values.
C19_WholesaleReplacement ==
    [][(monCount' = monCount + 1 /\ monLast' # Null)
          => LET d == monLast'
             IN  /\ d.type = "signals_update"
                      => /\ activeSignals' = Get(d, "signals")
                         /\ UNCHANGED <<marketData, stats>>
                 /\ d.type = "market_data"
                      => /\ marketData' = Get(d, "data")
                         /\ DOMAIN marketData' = DOMAIN Get(d, "data")
                         /\ UNCHANGED <<activeSignals, stats>>
                 /\ d.type = "stats_update"
                      => /\ stats' = Get(d, "stats")
                         /\ DOMAIN stats' = DOMAIN Get(d, "stats")
                         /\ UNCHANGED <<activeSignals, marketData>>]_vars

\* a stats_update with one field replaced the four-field stats object, after
\* the two other slices had been set, and left them as they were
C19_Witness ==
    /\ monCount = 3
    /\ monLast = [type |-> "stats_update", stats |-> [average_accuracy |-> 80]]
    /\ stats = [average_accuracy |-> 80]
    /\ activeSignals = <<[id |-> 2], [id |-> 1]>>
    /\ marketData = [ETH |-> [volume |-> 2]]


\* the sockets of the hook that are connecting or open
HookLive == {k \in 1..Len(hookSock) : hookSock[k] \in {"connecting", "open"}}

\* C20: while the hook is mounted every close of a socket of the hook arms
\* exactly one new timer, whose delay is 5000 ms however many timers were
\* armed before; the timer's callback makes the next socket; and there is no
\* cap: after any number of failures the hook either has a socket connecting
\* or open or has a reconnection pending.
C20_FixedDelayNoCap ==
    /\ [][(hookLast'.op = "close" /\ hookMounted = "yes")
             => /\ hookTimerCount' = hookTimerCount + 1
                /\ \E t \in hookTimers' \ hookTimers :
                      /\ hookTimers' = hookTimers \cup {t}
                      /\ t.delay = reconnectDelay]_vars
    /\ [][(hookLast'.op = "timer" /\ hookMounted = "yes")
             => /\ Len(hookSock') = Len(hookSock) + 1
                /\ hookSock'[Len(hookSock')] = "connecting"
                /\ Cardinality(hookTimers') = Cardinality(hookTimers) - 1]_vars
    /\ [](hookMounted = "yes" => (HookLive # {} \/ hookTimers # {}))
    /\ [](\A t \in hookTimers : t.delay = reconnectDelay)

\* the endpoint was never reachable: every socket so far failed to connect,
\* more often than the service's cap of five, and the next attempt is pending
C20_Witness ==
    /\ hookMounted = "yes"
    /\ Len(hookSock) = MaxHookSockets
    /\ Len(hookSock) > maxReconnectAttempts + 1
    /\ \A k \in 1..Len(hookSock) : hookSock[k] = "failed"
    /\ hookTimerCount = MaxHookSockets
    /\ hookTimers = {[id |-> MaxHookSockets, delay |-> reconnectDelay]}


\* C21: on mount the panel calls addMessageHandler once and then connect()
\* once, so that handleMessage is registered (once) whenever a frame of the
\* connection arrives and every decodable frame reaches it; while the panel
\* is mounted it calls neither removeMessageHandler nor disconnect; on
\* unmount it calls removeMessageHandler for that handler and then
\* disconnect(), after which the handler is gone and this.ws is null.
C21_PanelLifecycle ==
    /\ [](panelMounted = "no" => calls = <<>> /\ messageHandlers = <<>>)
    /\ [](panelMounted = "yes"
            => /\ calls = <<"addMessageHandler", "connect">>
               /\ messageHandlers = <<"handleMessage">>)
    /\ [](panelMounted = "gone"
            => /\ calls = <<"addMessageHandler", "connect",
                            "removeMessageHandler", "disconnect">>
               /\ "handleMessage" \notin Range(messageHandlers))
    /\ [][(panelMounted = "yes" /\ panelMounted' = "gone") => ws' = 0]_vars
    /\ [][(lastOp'.op = "message" /\ JSONParse(lastOp'.raw).ok)
             => IF panelMounted = "yes"
                THEN delivered' = Append(delivered, <<frames', "handleMessage">>)
                ELSE delivered' = delivered]_vars

\* the panel received a frame while mounted and has been unmounted since
C21_Witness ==
    /\ panelMounted = "gone"
    /\ lastOp.op = "disconnect" /\ lastOp.was = "open"
    /\ delivered = <<<<1, "handleMessage">>>>
    /\ messageHandlers = <<>>
    /\ ws = 0


\* C22: a signal_update leaves metrics as it was, a metrics_update leaves
\* signals as it was, and a message of any other type leaves both as they
\* were.
C22_FrameConditions ==
    [][Len(seen') = Len(seen) + 1
          => LET type == seen'[Len(seen')].type
             IN  /\ type = "signal_update" => metrics' = metrics
                 /\ type = "metrics_update" => signals' = signals
                 /\ type \notin {"signal_update", "metrics_update"}
                       => signals' = signals /\ metrics' = metrics]_vars

\* with a signal and a metrics snapshot present, a signal_update arrived
\* last, after a market_data message, and the snapshot is still the one the
\* first message set
C22_Witness ==
    /\ Len(seen) = 3
    /\ seen[1].type = "metrics_update"
    /\ seen[2].type = "market_data"
    /\ seen[3].type = "signal_update"
    /\ "data" \in DOMAIN seen[1]
    /\ metrics = seen[1].data
    /\ signals = <<seen[3].data>>


\* C23: once the cleanup of the hook's effect has run, no socket of the hook
\* is open and no further socket is made, also when a socket of the hook
\* closes after the cleanup.
C23_QuietAfterCleanup ==
    /\ [](hookMounted = "gone"
            => \A k \in 1..Len(hookSock) : hookSock[k] # "open")
    /\ [][hookMounted = "gone" => Len(hookSock') = Len(hookSock)]_vars


\* C24: as long as the client has called connect() at most once and never
\* disconnect(), the sockets that are connecting or open and the pending
\* timers are together at most one, and the retry counter is between 0 and
\* the cap.
C24_OneSocketOrTimer ==
    clientMode \in {"none", "once"}
        => /\ Cardinality(Live(sock)) + BagCardinality(timers) <= 1
           /\ reconnectAttempts \in 0..maxReconnectAttempts

\* after a frame was delivered the connection was lost and the fifth timer
\* has just made the only socket
C24_Witness ==
    /\ clientMode = "once"
    /\ delivered # <<>>
    /\ lastOp.op = "timer"
    /\ reconnectAttempts = maxReconnectAttempts
    /\ Cardinality(Live(sock)) = 1
    /\ timers = EmptyBag


\* the position in hs of the first handler that throws on document m, and
\* Len(hs) when none does: the number of handlers forEach invokes
Invoked(hs, m) ==
    IF \E i \in 1..Len(hs) : Throws(hs[i], m)
    THEN MinOf({i \in 1..Len(hs) : Throws(hs[i], m)})
    ELSE Len(hs)

\* C25: when a handler throws during the delivery of a frame, nothing leaves
\* the message callback, the sockets, this.ws, the retry counter, the timers
\* and the registry are as before, the handlers registered before the
\* throwing one and the throwing one itself have been invoked and those after
\* it have not; and every decodable frame, also one that follows such a
\* frame, is delivered starting with the first registered handler.
C25_ThrowingHandler ==
    [][(lastOp'.op = "message" /\ JSONParse(lastOp'.raw).ok)
          => LET m == JSONParse(lastOp'.raw).value
                 n == Invoked(messageHandlers, m)
             IN  /\ raised' = FALSE
                 /\ UNCHANGED <<ws, sock, reconnectAttempts, timers,
                                messageHandlers>>
                 /\ Len(delivered') = Len(delivered) + n
                 /\ \A i \in 1..n :
                       delivered'[Len(delivered) + i] = <<frames', messageHandlers[i]>>]_vars

\* the first frame made the first of two handlers throw and the second
\* handler was skipped; the second frame reached both, on the open socket
C25_Witness ==
    /\ messageHandlers = <<"handleMessage", "observer">>
    /\ delivered = <<<<1, "handleMessage">>,
                     <<2, "handleMessage">>, <<2, "observer">>>>
    /\ lastOp.op = "message"
    /\ sock[lastOp.s] = "open"
    /\ ~raised
    /\ reconnectAttempts = 0


\* C26: a frame changes RealTimeMonitor's state only if the effect has
\* attached onmessage to the socket it arrives on, which is then open and
\* has had its open event; a frame that arrives on an open socket before the
\* attachment changes nothing and is not applied later (the step that
\* attaches the handler leaves the monitor's state alone); the handler is
\* attached only by the effect, to the socket that is then the state ws;
\* so after a reconnection no frame of the new socket is applied before the
\* effect has run for it.
C26_AppliedOnlyWhenAttached ==
    /\ [][hookLast'.op = "frame"
             => IF hookLast'.k \in monAttached
                THEN /\ hookSock[hookLast'.k] = "open"
                     /\ monCount' = monCount + 1
                     /\ monLast' = hookLast'.data
                     /\ UNCHANGED monDropped
                ELSE /\ UNCHANGED monitorVars
                     /\ monDropped' = monDropped + 1]_vars
    /\ [][hookLast'.op # "frame" => UNCHANGED monitorVars]_vars
    /\ [][monAttached' # monAttached
             => /\ hookLast'.op = "effect"
                /\ monAttached' = monAttached \cup {hookWs}
                /\ hookSock[hookWs] # "connecting"]_vars
    /\ [](\A k \in monAttached : hookSock[k] # "connecting")

\* a frame was dropped on the first socket before the effect ran, and after
\* a reconnection a frame was dropped on the second socket and then, the
\* effect having run, a frame was applied on it
C26_Witness ==
    /\ Len(hookSock) = 2
    /\ hookSock[2] = "open"
    /\ monAttached = {2}
    /\ monDropped = 2
    /\ monCount = 1
    /\ hookLast.op = "frame" /\ hookLast.k = 2
    /\ activeSignals = <<[id |-> 1]>>


TypeOK ==
    /\ ws \in 0..MaxSockets
    /\ sock \in [Slots -> ReadyStates]
    /\ reconnectAttempts \in 0..maxReconnectAttempts
    /\ Len(messageHandlers) <= MaxRegistry
    /\ BagCardinality(timers) <= MaxTimers
    /\ frames \in 0..MaxFrames
====
